---- MODULE Spec2Model ----
(***************************************************************************)
(* Model of hamster_redmine_sync.py (variant "hamster": activities         *)
(* accumulate facts) and charm_redmine_sync.py (variant "charm": tasks     *)
(* accumulate events).                                                     *)
(*                                                                         *)
(* Conventions                                                             *)
(*   - a date is <<year, month, day>>; a text is a sequence of character   *)
(*     codes (ASCII), compared the way SQLite's BINARY collation and       *)
(*     Python's str compare them;                                          *)
(*   - a duration is a whole number of seconds; spent_time (hours, a       *)
(*     float in the code) is kept as seconds, i.e. hours * 3600;           *)
(*   - rounded hours are kept as a whole number of half hours, i.e.        *)
(*     hours * 2 (the code's values are always k / 2).                     *)
(***************************************************************************)
EXTENDS Integers, Sequences, FiniteSets, TLC

VARIABLES
    today,      \* datetime.date.today() at import
    PERIODS,    \* the module-level PERIODS dict, or the exception raised
    variant,    \* "hamster" | "charm": which of the two programs runs
    period,     \* the period option: "week" | "month"
    owners,     \* local Activity rows (hamster) / Task rows (charm)
    entries,    \* local Fact rows (hamster) / Event rows (charm)
    spent,      \* what get_spent_time_per_day last accumulated and returned
    remote,     \* the remote service's time entries of the configured user
    remote0,    \* the remote time entries before the first call
    calls,      \* the remote calls issued, one sequence per finished call/run
    pc,         \* position of the program
    issues,     \* what redm.issue.filter(assigned_to_id='me') returns
    tasks,      \* charm: the Tasks table
    tasks0,     \* charm: the Tasks table before sync_redmine_issues
    categories, \* hamster: the categories table
    activities, \* hamster: the activities table (issue import view)
    added,      \* the rows handed to session.add by sync_redmine_issues
    args        \* the arguments of the call of _push_time_entry

vars == <<today, PERIODS, variant, period, owners, entries, spent, remote,
          remote0, calls, pc, issues, tasks, tasks0, categories, activities,
          added, args>>

----------------------------------------------------------------------------
(* Bounds of the model *)

FirstYear == 2023
LastYear == 2024
MaxRemote == 2
MaxEntries == 2
MaxId == 2
MaxTasks == 2
MaxIssues == 2

Years == FirstYear..LastYear

None == <<"None">>

----------------------------------------------------------------------------
(* datetime.date *)

IsLeap(y) == (y % 4 = 0) /\ ((y % 100 # 0) \/ (y % 400 = 0))

DaysInMonth(y, m) ==
    IF m = 2 THEN (IF IsLeap(y) THEN 29 ELSE 28)
    ELSE IF m \in {4, 6, 9, 11} THEN 30 ELSE 31

RECURSIVE DaysBeforeMonth(_, _)
DaysBeforeMonth(y, m) ==
    IF m = 1 THEN 0 ELSE DaysBeforeMonth(y, m - 1) + DaysInMonth(y, m - 1)

\* date.toordinal(): 0001-01-01 is day 1
ToOrdinal(d) ==
    LET y == d[1] - 1
    IN  y * 365 + (y \div 4) - (y \div 100) + (y \div 400)
        + DaysBeforeMonth(d[1], d[2]) + d[3]

\* date.weekday(): Monday is 0
Weekday(d) == (ToOrdinal(d) + 6) % 7

NextDay(d) ==
    IF d[3] < DaysInMonth(d[1], d[2]) THEN <<d[1], d[2], d[3] + 1>>
    ELSE IF d[2] < 12 THEN <<d[1], d[2] + 1, 1>>
    ELSE <<d[1] + 1, 1, 1>>

PrevDay(d) ==
    IF d[3] > 1 THEN <<d[1], d[2], d[3] - 1>>
    ELSE IF d[2] > 1 THEN <<d[1], d[2] - 1, DaysInMonth(d[1], d[2] - 1)>>
    ELSE <<d[1] - 1, 12, 31>>

\* date + relativedelta(days=n), n of either sign
RECURSIVE AddDays(_, _)
AddDays(d, n) ==
    IF n = 0 THEN d
    ELSE IF n > 0 THEN AddDays(NextDay(d), n - 1)
    ELSE AddDays(PrevDay(d), n + 1)

\* date.replace(day=day, month=month): ValueError unless the fields are a date
DateReplace(d, month, day) ==
    IF month \in 1..12 /\ day \in 1..DaysInMonth(d[1], month)
    THEN <<d[1], month, day>>
    ELSE "ValueError"

ValidDates == {d \in Years \X (1..12) \X (1..31) : d[3] <= DaysInMonth(d[1], d[2])}

----------------------------------------------------------------------------
(* PERIODS, evaluated once when the module is imported *)

MonthPeriod(t) ==
    LET first == DateReplace(t, t[2], 1)
        next  == DateReplace(t, t[2] + 1, 1)
    IN  IF next = "ValueError" THEN "ValueError"
        ELSE <<first, AddDays(next, -1)>>

WeekPeriod(t) == <<AddDays(t, 0 - Weekday(t)), AddDays(t, 6 - Weekday(t))>>

\* the dict literal: the 'month' item is evaluated first and its exception
\* leaves PERIODS unbound
Raised(exception) == [raised |-> exception]

HasRaised(x) == "raised" \in DOMAIN x

ModulePERIODS(t) ==
    IF MonthPeriod(t) = "ValueError" THEN Raised("ValueError")
    ELSE [month |-> MonthPeriod(t), week |-> WeekPeriod(t)]

----------------------------------------------------------------------------
(* Texts: str(date), the stored timestamps, their order and their parsing *)

CH == [zero |-> 48, hash |-> 35, dash |-> 45, space |-> 32, colon |-> 58,
       T |-> 84, a |-> 97, b |-> 98, p |-> 112, q |-> 113]

IsDigit(c) == c \in 48..57

\* "%0<width>d" % n
RECURSIVE Digits(_, _)
Digits(n, width) ==
    IF width = 0 THEN <<>>
    ELSE Append(Digits(n \div 10, width - 1), CH.zero + (n % 10))

\* str(n) for n >= 0
RECURSIVE Str(_)
Str(n) == IF n < 10 THEN <<CH.zero + n>> ELSE Append(Str(n \div 10), CH.zero + (n % 10))

\* int(text) of a text of digits
RECURSIVE Int_(_)
Int_(s) ==
    IF s = <<>> THEN 0
    ELSE 10 * Int_(SubSeq(s, 1, Len(s) - 1)) + (s[Len(s)] - CH.zero)

\* str(date) == date.isoformat(), what "{}".format(date) puts into the join
DateText(d) ==
    Digits(d[1], 4) \o <<CH.dash>> \o Digits(d[2], 2) \o <<CH.dash>> \o Digits(d[3], 2)

ClockText(sec) ==
    Digits(sec \div 3600, 2) \o <<CH.colon>> \o Digits((sec % 3600) \div 60, 2)
    \o <<CH.colon>> \o Digits(sec % 60, 2)

\* the separator between date and time in the stored text: Charm stores
\* '%Y-%m-%dT%H:%M:%S', the DateTime column of hamster.db holds
\* 'YYYY-MM-DD HH:MM:SS'
Sep(v) == IF v = "charm" THEN CH.T ELSE CH.space

\* the stored text of the timestamp <<date, second of the day>>
StampText(v, ts) == DateText(ts[1]) \o <<Sep(v)>> \o ClockText(ts[2])

\* Event.start_date / Event.end_date (strptime); for hamster the DateTime
\* column's result processor: the text read back as a datetime
ParseStamp(s) ==
    LET D(i) == s[i] - CH.zero
        N2(i) == 10 * D(i) + D(i + 1)
    IN  [date |-> <<100 * N2(1) + N2(3), N2(6), N2(9)>>,
         sec  |-> N2(12) * 3600 + N2(15) * 60 + N2(18)]

\* a < b for texts: the first differing character decides, else the length
TextLess(s, t) ==
    \/ \E i \in 1..Len(s) :
          /\ i <= Len(t)
          /\ s[i] < t[i]
          /\ \A j \in 1..(i - 1) : s[j] = t[j]
    \/ /\ Len(s) < Len(t)
       /\ \A j \in 1..Len(s) : s[j] = t[j]

TextLE(s, t) == s = t \/ TextLess(s, t)

----------------------------------------------------------------------------
(* Fact.spent_time / Event.spent_time, in seconds (hours * 3600) *)

\* datetime - datetime, as a whole number of seconds
Minus(e, s) == (ToOrdinal(e.date) - ToOrdinal(s.date)) * 86400 + (e.sec - s.sec)

\* timedelta.seconds: the seconds field of the normalised (days, seconds)
TimedeltaSeconds(td) == td % 86400

\* charm: end_date strptime()s self.end before anything looks at it, a
\* TypeError when the column is NULL (the "is None" branch is never reached)
SpentTimeRaises(v, e) == v = "charm" /\ e.end = None

\* hamster: -1 (hours) for a fact with no end_time
SpentTime(v, e) ==
    IF e.end = None THEN 0 - 3600
    ELSE TimedeltaSeconds(Minus(ParseStamp(e.end), ParseStamp(e.start)))

----------------------------------------------------------------------------
(* facts_week / facts_month, events_week / events_month *)

\* the bounds of the primaryjoin, formatted when the class is defined:
\* "{}".format(date) for both ends of the period
JoinBounds(range) == <<DateText(range[1]), DateText(range[2])>>

\* the primaryjoin: owner match and start >= "<period start>" and
\* start <= "<period end>", the start text compared with the texts of the
\* two dates
InPeriod(e, key, bounds) ==
    /\ e.owner = key
    /\ TextLE(bounds[1], e.start)
    /\ TextLE(e.start, bounds[2])

\* order_by start: indices of the selected rows, smallest start first
RECURSIVE OrderByStart(_, _)
OrderByStart(rows, idx) ==
    IF idx = {} THEN <<>>
    ELSE LET first == CHOOSE i \in idx : \A j \in idx :
                          \/ TextLess(rows[i].start, rows[j].start)
                          \/ (rows[i].start = rows[j].start /\ i <= j)
         IN  <<rows[first]>> \o OrderByStart(rows, idx \ {first})

PeriodEntries(rows, key, range) ==
    LET bounds == JoinBounds(range)
    IN  OrderByStart(rows, {i \in 1..Len(rows) : InPeriod(rows[i], key, bounds)})

\* the relationship get_spent_time_per_day reads, 'facts_' + period or
\* 'events_' + period. charm passes period on; hamster calls
\* get_spent_time_per_day(*date_range), which leaves its period parameter at
\* the default 'week' whatever the period of the run is
RelationshipPeriod(v, per) == IF v = "hamster" THEN "week" ELSE per

----------------------------------------------------------------------------
(* get_spent_time_per_day *)

\* position of date in the dict (a sequence of <<date, value>>), 0 if absent
KeyIndex(d, date) ==
    IF \E i \in 1..Len(d) : d[i][1] = date
    THEN CHOOSE i \in 1..Len(d) : d[i][1] = date
    ELSE 0

\* d[date] += secs on a defaultdict(float)
DictAdd(d, date, secs) ==
    LET i == KeyIndex(d, date)
    IN  IF i = 0 THEN Append(d, <<date, secs>>)
        ELSE [d EXCEPT ![i] = <<date, d[i][2] + secs>>]

\* the first loop: "TypeError" as soon as one spent_time raises
RECURSIVE Accumulate(_, _, _)
Accumulate(v, es, d) ==
    IF es = <<>> THEN d
    ELSE IF SpentTimeRaises(v, Head(es)) THEN "TypeError"
    ELSE Accumulate(v, Tail(es),
                    DictAdd(d, ParseStamp(Head(es).start).date, SpentTime(v, Head(es))))

\* Python 3 round(): to the nearest integer, ties to the even one; n / q
RoundHalfEven(n, q) ==
    LET f == n \div q
        r == n % q
    IN  IF 2 * r < q THEN f
        ELSE IF 2 * r > q THEN f + 1
        ELSE IF f % 2 = 0 THEN f ELSE f + 1

\* round(raw_time * 2) / 2 with raw_time = secs / 3600, as half hours
RoundHalfHours(secs) == RoundHalfEven(secs, 1800)

\* the second loop: d[key] = round(raw_time * 2) / 2 for every key
RECURSIVE RoundAll(_)
RoundAll(d) ==
    IF d = <<>> THEN <<>>
    ELSE <<<<Head(d)[1], RoundHalfHours(Head(d)[2])>>>> \o RoundAll(Tail(d))

\* [raw |-> the dict before rounding, rounded |-> the dict returned]
GetSpentTimePerDay(v, rows, key, range) ==
    LET d == Accumulate(v, PeriodEntries(rows, key, range), <<>>)
    IN  IF d = "TypeError" THEN Raised("TypeError")
        ELSE [raw |-> d, rounded |-> RoundAll(d)]

----------------------------------------------------------------------------
(* The remote service: time entries of the configured user                 *)
(* (redmine_user_id, whose API key the connection uses). A time entry is   *)
(* [id, spent_on, issue_id, hours], hours in half hours.                   *)

ActivityId == 9

\* time_entry.filter(spent_on=date, issue_id=issue_id, user_id=...)
Filter(rem, date, issue) == {r \in rem : r.spent_on = date /\ r.issue_id = issue}

\* the id the service gives the next created entry
NewId(rem) ==
    IF rem = {} THEN 1
    ELSE (CHOOSE i \in {r.id : r \in rem} : \A r \in rem : r.id <= i) + 1

\* one remote call, as recorded in the log of a run; owner is the local row
\* on whose behalf it is issued
Call(op, owner, date, issue, hours, id) ==
    [op |-> op, owner |-> owner, spent_on |-> date, issue_id |-> issue,
     hours |-> hours, id |-> id, activity_id |-> IF op = "filter" THEN 0 ELSE ActivityId]

\* _push_time_entry without the comparison of the hours: one match is
\* always updated
PushTimeEntryAlwaysUpdate(st, spent_time, issue_id, date, owner) ==
    LET found == Filter(st.remote, date, issue_id)
        log1  == Append(st.log, Call("filter", owner, date, issue_id, 0, 0))
    IN  IF Cardinality(found) = 1
        THEN LET e == CHOOSE r \in found : TRUE
             IN  [remote |-> (st.remote \ {e}) \cup
                             {[id |-> e.id, spent_on |-> date,
                               issue_id |-> issue_id, hours |-> spent_time]},
                  log |-> Append(log1, Call("update", owner, date, issue_id,
                                            spent_time, e.id))]
        ELSE [remote |-> st.remote \cup
                         {[id |-> NewId(st.remote), spent_on |-> date,
                           issue_id |-> issue_id, hours |-> spent_time]},
              log |-> Append(log1, Call("create", owner, date, issue_id,
                                        spent_time, 0))]

\* _push_time_entry(spent_time, issue_id, date) on st = [remote, log]:
\* more than one match is only logged (logging.error) and falls into the
\* else branch of "len(entries) == 1", the create
PushTimeEntry(st, spent_time, issue_id, date, owner) ==
    LET found == Filter(st.remote, date, issue_id)
        log1  == Append(st.log, Call("filter", owner, date, issue_id, 0, 0))
    IN  IF Cardinality(found) = 1
        THEN LET e == CHOOSE r \in found : TRUE
             IN  IF e.hours # spent_time
                 THEN [remote |-> (st.remote \ {e}) \cup
                                  {[id |-> e.id, spent_on |-> date,
                                    issue_id |-> issue_id, hours |-> spent_time]},
                       log |-> Append(log1, Call("update", owner, date, issue_id,
                                                 spent_time, e.id))]
                 ELSE [remote |-> st.remote, log |-> log1]
        ELSE [remote |-> st.remote \cup
                         {[id |-> NewId(st.remote), spent_on |-> date,
                           issue_id |-> issue_id, hours |-> spent_time]},
              log |-> Append(log1, Call("create", owner, date, issue_id,
                                        spent_time, 0))]

----------------------------------------------------------------------------
(* sync_timeentries *)

\* the digits that follow the first '#' followed by a digit: what
\* re.findall(r'#(\d+)', name)[0] is; <<>> when findall returns []
RECURSIVE DigitRun(_)
DigitRun(s) ==
    IF s # <<>> /\ IsDigit(Head(s)) THEN <<Head(s)>> \o DigitRun(Tail(s)) ELSE <<>>

RECURSIVE FirstIssueNumber(_)
FirstIssueNumber(name) ==
    IF name = <<>> THEN <<>>
    ELSE IF Head(name) = CH.hash /\ DigitRun(Tail(name)) # <<>> THEN DigitRun(Tail(name))
    ELSE FirstIssueNumber(Tail(name))

\* hamster: IndexError (continue) when the name holds no issue number
HasIssue(v, row) == v = "charm" \/ FirstIssueNumber(row.name) # <<>>

\* the issue_id handed to _push_time_entry: the matched digits (hamster; the
\* service reads them as a number) or task.task_id (charm)
IssueOf(v, row) == IF v = "charm" THEN row.key ELSE Int_(FirstIssueNumber(row.name))

\* PushDays without the "if spent_time" guard
RECURSIVE PushDaysUnguarded(_, _, _, _)
PushDaysUnguarded(st, days, issue, owner) ==
    IF days = <<>> THEN st
    ELSE PushDaysUnguarded(PushTimeEntry(st, Head(days)[2], issue, Head(days)[1], owner),
                           Tail(days), issue, owner)

\* for date, spent_time in time_entries: if spent_time: _push_time_entry(...)
RECURSIVE PushDays(_, _, _, _)
PushDays(st, days, issue, owner) ==
    IF days = <<>> THEN st
    ELSE PushDays(IF Head(days)[2] # 0
                  THEN PushTimeEntry(st, Head(days)[2], issue, Head(days)[1], owner)
                  ELSE st,
                  Tail(days), issue, owner)

\* the body of the loop over activities / tasks, for row number i;
\* st = [remote, log, raised]
SyncOwner(v, st, rows, i, facts, range) ==
    IF ~HasIssue(v, rows[i]) THEN st
    ELSE LET t == GetSpentTimePerDay(v, facts, rows[i].key, range)
         IN  IF HasRaised(t) THEN [st EXCEPT !.raised = TRUE]
             ELSE LET r == PushDays([remote |-> st.remote, log |-> st.log],
                                    t.rounded, IssueOf(v, rows[i]), i)
                  IN  [remote |-> r.remote, log |-> r.log, raised |-> FALSE]

\* the loop over the rows from row i on; an exception ends it
RECURSIVE SyncFrom(_, _, _, _, _, _)
SyncFrom(v, st, rows, i, facts, range) ==
    IF i > Len(rows) \/ st.raised THEN st
    ELSE SyncFrom(v, SyncOwner(v, st, rows, i, facts, range), rows, i + 1, facts, range)

SyncRun(v, rem, rows, facts, range) ==
    SyncFrom(v, [remote |-> rem, log |-> <<>>, raised |-> FALSE], rows, 1, facts, range)

----------------------------------------------------------------------------
(* Parts of the state a specification leaves alone *)

IdleClock == today = <<>> /\ PERIODS = Raised("unbound")
IdleStore == variant = "none" /\ period = "none" /\ owners = <<>> /\ entries = <<>>
             /\ spent = <<>>
IdleRemote == remote = {} /\ remote0 = {} /\ calls = <<>> /\ args = <<>>
IdleImport == issues = <<>> /\ tasks = <<>> /\ tasks0 = <<>> /\ categories = <<>>
              /\ activities = <<>> /\ added = <<>>

----------------------------------------------------------------------------
(* SpecPeriods: the import of the module on any day of Years *)

InitPeriods ==
    /\ today \in ValidDates
    /\ PERIODS = Raised("unbound")
    /\ pc = "import"
    /\ IdleStore /\ IdleRemote /\ IdleImport

\* lines 26-31 run: PERIODS is bound, or the import dies of the ValueError
Import ==
    /\ pc = "import"
    /\ PERIODS' = ModulePERIODS(today)
    /\ pc' = IF HasRaised(ModulePERIODS(today)) THEN "ValueError" ELSE "imported"
    /\ UNCHANGED <<today, variant, period, owners, entries, spent, remote, remote0,
                   calls, issues, tasks, tasks0, categories, activities, added, args>>

SpecPeriods == InitPeriods /\ [][Import]_vars

----------------------------------------------------------------------------
(* SpecPush: one call of _push_time_entry against any remote state of at   *)
(* most MaxRemote time entries                                             *)

PushDates == {<<2024, 3, 4>>, <<2024, 3, 5>>}
PushIssues == {4, 7}
\* hours on the remote side, in half hours
RemoteHours == {2, 3}
\* spent_time values the caller hands over (never 0), in half hours
PushHours == {0 - 2, 2, 5}

RemoteStates ==
    UNION {{ {[id |-> i, spent_on |-> f[i][1], issue_id |-> f[i][2], hours |-> f[i][3]]
              : i \in 1..n}
            : f \in [1..n -> PushDates \X PushIssues \X RemoteHours]}
           : n \in 0..MaxRemote}

InitPush ==
    /\ remote \in RemoteStates
    /\ remote0 = remote
    /\ calls = <<>>
    /\ args = <<>>
    /\ pc = "ready"
    /\ variant \in {"hamster", "charm"}
    /\ period = "none" /\ owners = <<>> /\ entries = <<>> /\ spent = <<>>
    /\ IdleClock /\ IdleImport

CallPushTimeEntry ==
    /\ pc = "ready"
    /\ \E h \in PushHours, i \in PushIssues, d \in PushDates :
          LET r == PushTimeEntry([remote |-> remote, log |-> <<>>], h, i, d, 0)
          IN  /\ remote' = r.remote
              /\ calls' = Append(calls, r.log)
              /\ args' = [spent_time |-> h, issue_id |-> i, date |-> d]
    /\ pc' = "pushed"
    /\ UNCHANGED <<today, PERIODS, variant, period, owners, entries, spent, remote0,
                   issues, tasks, tasks0, categories, activities, added>>

SpecPush == InitPush /\ [][CallPushTimeEntry]_vars

----------------------------------------------------------------------------
(* Local stores *)

\* the timestamp dur seconds after the timestamp ts = <<date, second>>
Later(ts, dur) == <<AddDays(ts[1], (ts[2] + dur) \div 86400), (ts[2] + dur) % 86400>>

Open == 0 - 1

\* a Fact / Event row of owner key, started at ts and dur seconds long, or
\* still running (dur = Open: the end column is NULL)
Row(v, key, ts, dur) ==
    [owner |-> key, start |-> StampText(v, ts),
     end |-> IF dur = Open THEN None ELSE StampText(v, Later(ts, dur))]

\* the sequences of exactly n / of at most n elements of S
RECURSIVE SeqsOfLen(_, _)
SeqsOfLen(S, n) ==
    IF n = 0 THEN {<<>>}
    ELSE {Append(t, x) : t \in SeqsOfLen(S, n - 1), x \in S}

SeqsUpTo(S, n) == UNION {SeqsOfLen(S, k) : k \in 0..n}

\* the tables of 0..n rows of the keys, starts and durations given
Tables(v, keys, starts, durs, n) ==
    SeqsUpTo({Row(v, k, ts, dur) : k \in keys, ts \in starts, dur \in durs}, n)

\* "#<id> - <subject>", the name sync_redmine_issues gives an activity
ActivityName(id, subject) ==
    <<CH.hash>> \o Str(id) \o <<CH.space, CH.dash, CH.space>> \o subject

\* rows [key, name] from a sequence of names (hamster: the key is the id,
\* the row number) or of task ids (charm: the key is the task_id)
RECURSIVE OwnerRows(_, _)
OwnerRows(v, t) ==
    IF t = <<>> THEN <<>>
    ELSE Append(OwnerRows(v, SubSeq(t, 1, Len(t) - 1)),
                IF v = "hamster" THEN [key |-> Len(t), name |-> t[Len(t)]]
                ELSE [key |-> t[Len(t)], name |-> <<CH.a>>])

Keys(rows) == {rows[i].key : i \in 1..Len(rows)}

----------------------------------------------------------------------------
(* SpecAgg: get_spent_time_per_day of one activity / task, for entries     *)
(* around the ends of the period                                           *)

AggTodays == {<<2024, 3, 6>>, <<2024, 2, 15>>}

AggStarts(range) ==
    {<<range[1], 0>>, <<range[1], 32400>>, <<range[1], 82800>>,
     <<PrevDay(range[1]), 86399>>, <<range[2], 0>>, <<range[2], 1>>}

AggDurations == {0, 900, 3600, 6300, 7200, 86400, 90000, Open}

InitAgg ==
    /\ today \in AggTodays
    /\ PERIODS = ModulePERIODS(today)
    /\ variant \in {"hamster", "charm"}
    /\ period \in {"week", "month"}
    /\ owners = OwnerRows(variant, IF variant = "hamster"
                                    THEN <<ActivityName(4, <<CH.a>>)>> ELSE <<4>>)
    /\ entries \in Tables(variant, Keys(owners),
                          AggStarts(PERIODS[RelationshipPeriod(variant, period)]),
                          AggDurations, MaxEntries)
    /\ spent = <<>>
    /\ pc = "ready"
    /\ IdleRemote /\ IdleImport

\* task.get_spent_time_per_day(period=period), with what it selected
Aggregate ==
    /\ pc = "ready"
    /\ \E i \in 1..Len(owners) :
          LET range == PERIODS[RelationshipPeriod(variant, period)]
              t == GetSpentTimePerDay(variant, entries, owners[i].key, range)
          IN  /\ spent' = IF HasRaised(t) THEN t
                          ELSE [owner |-> i, raw |-> t.raw, rounded |-> t.rounded,
                                selected |-> PeriodEntries(entries, owners[i].key, range)]
              /\ pc' = IF HasRaised(t) THEN "TypeError" ELSE "aggregated"
    /\ UNCHANGED <<today, PERIODS, variant, period, owners, entries, remote, remote0,
                   calls, issues, tasks, tasks0, categories, activities, added, args>>

SpecAgg == InitAgg /\ [][Aggregate]_vars

----------------------------------------------------------------------------
(* Spec: sync_timeentries run twice in a row over an unchanged local store *)

SyncToday == <<2024, 3, 6>>

\* Monday and Tuesday of the week of SyncToday, 09:00
SyncStarts == {<<<<2024, 3, 4>>, 32400>>, <<<<2024, 3, 5>>, 32400>>}

\* a quarter of an hour (rounds to 0.0), 1 h, 1.5 h, still running
SyncDurations == {900, 3600, 5400, Open}

\* hamster: two activities of different issues, two of the same issue (the
\* same name in two categories), one activity and one without issue number.
\* charm: two tasks.
SyncOwnerTables(v) ==
    IF v = "hamster"
    THEN {OwnerRows(v, <<ActivityName(4, <<CH.a>>), ActivityName(7, <<CH.b>>)>>),
          OwnerRows(v, <<ActivityName(4, <<CH.a>>), ActivityName(4, <<CH.a>>)>>),
          OwnerRows(v, <<<<CH.b, CH.hash>>, ActivityName(4, <<CH.a>>)>>)}
    ELSE {OwnerRows(v, <<7, 4>>)}

\* no entry, one entry, two entries for Tuesday and issue 4
SyncRemotes ==
    {{},
     {[id |-> 1, spent_on |-> <<2024, 3, 5>>, issue_id |-> 4, hours |-> 2]},
     {[id |-> 1, spent_on |-> <<2024, 3, 5>>, issue_id |-> 4, hours |-> 2],
      [id |-> 2, spent_on |-> <<2024, 3, 5>>, issue_id |-> 4, hours |-> 3]}}

\* period: the default of the --period option
Init ==
    /\ today = SyncToday
    /\ PERIODS = ModulePERIODS(today)
    /\ variant \in {"hamster", "charm"}
    /\ period = "week"
    /\ owners \in SyncOwnerTables(variant)
    /\ entries \in Tables(variant, Keys(owners), SyncStarts, SyncDurations, MaxEntries)
    /\ spent = <<>>
    /\ remote \in SyncRemotes
    /\ remote0 = remote
    /\ calls = <<>>
    /\ args = <<>>
    /\ pc = "first"
    /\ IdleImport

\* sync_timeentries(period): the whole pass; an exception of
\* get_spent_time_per_day ends the program
SyncTimeentries ==
    /\ pc \in {"first", "second"}
    /\ LET r == SyncRun(variant, remote, owners, entries,
                        PERIODS[RelationshipPeriod(variant, period)])
       IN  /\ remote' = r.remote
           /\ calls' = Append(calls, r.log)
           /\ pc' = IF r.raised THEN "TypeError"
                    ELSE IF pc = "first" THEN "second" ELSE "done"
    /\ UNCHANGED <<today, PERIODS, variant, period, owners, entries, spent, remote0,
                   issues, tasks, tasks0, categories, activities, added, args>>

Next == SyncTimeentries

Spec == Init /\ [][Next]_vars

----------------------------------------------------------------------------
(* charm: sync_redmine_issues. A Task row is [task_id, parent, trackable]; *)
(* an issue is [id] or, with a parent, [id, parent |-> [id]]               *)

\* session.query(Task).filter(Task.task_id == id).first() finds a row
TaskExists(ts, id) == \E i \in 1..Len(ts) : ts[i].task_id = id

\* try: issue.parent.id / except ResourceAttrError: 0
ParentId(issue) == IF "parent" \in DOMAIN issue THEN issue.parent.id ELSE 0

\* the first loop; st = [tasks, added]
RECURSIVE CreateTasks(_, _)
CreateTasks(st, is) ==
    IF is = <<>> THEN st
    ELSE IF TaskExists(st.tasks, Head(is).id) THEN CreateTasks(st, Tail(is))
    ELSE LET obj == [task_id |-> Head(is).id, parent |-> ParentId(Head(is)),
                     trackable |-> 1]
         IN  CreateTasks([tasks |-> Append(st.tasks, obj),
                          added |-> Append(st.added, obj)], Tail(is))

\* a consistency pass that resets nothing
NoConsistency(ts, i) == ts

\* "Check consistency": from row i on, a parent that is the task_id of no
\* row becomes 0
RECURSIVE CheckConsistency(_, _)
CheckConsistency(ts, i) ==
    IF i > Len(ts) THEN ts
    ELSE IF ts[i].parent # 0 /\ ~TaskExists(ts, ts[i].parent)
    THEN CheckConsistency([ts EXCEPT ![i].parent = 0], i + 1)
    ELSE CheckConsistency(ts, i + 1)

\* the parents run one further than the task ids: the id of a task that
\* is gone
TaskRows == [task_id : 1..MaxId, parent : 0..(MaxId + 1), trackable : {1}]

IssueRecords == [id : 1..MaxId] \cup [id : 1..MaxId, parent : [id : 1..MaxId]]

DistinctIds(is) == \A i, j \in 1..Len(is) : i # j => is[i].id # is[j].id

\* Charm and this importer keep task_id unique in the Tasks table
DistinctTaskIds(ts) == \A i, j \in 1..Len(ts) : i # j => ts[i].task_id # ts[j].task_id

InitCharmIssues ==
    /\ variant = "charm"
    /\ tasks \in {ts \in SeqsUpTo(TaskRows, MaxTasks) : DistinctTaskIds(ts)}
    /\ tasks0 = tasks
    /\ issues \in {is \in SeqsUpTo(IssueRecords, MaxIssues) : DistinctIds(is)}
    /\ added = <<>>
    /\ categories = <<>> /\ activities = <<>>
    /\ pc = "ready"
    /\ period = "none" /\ owners = <<>> /\ entries = <<>> /\ spent = <<>>
    /\ IdleClock /\ IdleRemote

CharmSyncRedmineIssues ==
    /\ pc = "ready"
    /\ LET st == CreateTasks([tasks |-> tasks, added |-> <<>>], issues)
       IN  /\ tasks' = CheckConsistency(st.tasks, 1)
           /\ added' = st.added
    /\ pc' = "imported"
    /\ UNCHANGED <<today, PERIODS, variant, period, owners, entries, spent, remote,
                   remote0, calls, issues, tasks0, categories, activities, args>>

SpecCharmIssues == InitCharmIssues /\ [][CharmSyncRedmineIssues]_vars

----------------------------------------------------------------------------
(* hamster: sync_redmine_issues. A Category row is [id, name]; an Activity *)
(* row is [name, search_name, category_id], category_id 0 for NULL; an     *)
(* issue is [id, subject, project]                                         *)

\* "{} {}".format(issue.subject, issue.id)
SearchName(id, subject) == subject \o <<CH.space>> \o Str(id)

\* the id of the first Category of that name, 0 when .first() is None
CategoryNamed(cs, name) ==
    IF \E i \in 1..Len(cs) : cs[i].name = name
    THEN cs[CHOOSE i \in 1..Len(cs) :
                /\ cs[i].name = name
                /\ \A j \in 1..Len(cs) : cs[j].name = name => i <= j].id
    ELSE 0

ActivityExists(as, name) == \E i \in 1..Len(as) : as[i].name = name

\* the loop over hissues; st = [categories, activities, added]. The
\* variable category still holds the result of the query (None) when the
\* Category has just been added
RECURSIVE ImportIssues(_, _)
ImportIssues(st, is) ==
    IF is = <<>> THEN st
    ELSE LET name     == ActivityName(Head(is).id, Head(is).subject)
             category == CategoryNamed(st.categories, Head(is).project)
             cats     == IF category = 0
                         THEN Append(st.categories,
                                     [id |-> Len(st.categories) + 1,
                                      name |-> Head(is).project])
                         ELSE st.categories
             obj      == [name |-> name,
                          search_name |-> SearchName(Head(is).id, Head(is).subject),
                          category_id |-> category]
         IN  IF ActivityExists(st.activities, name)
             THEN ImportIssues([st EXCEPT !.categories = cats], Tail(is))
             ELSE ImportIssues([categories |-> cats,
                                activities |-> Append(st.activities, obj),
                                added |-> Append(st.added, obj)], Tail(is))

Projects == {<<CH.p>>, <<CH.q>>}

HamsterIssues == [id : 1..MaxId, subject : {<<CH.a>>, <<CH.b>>}, project : Projects]

\* the categories table before the run: ids are the row numbers
CategoryTables ==
    {<<>>, <<[id |-> 1, name |-> <<CH.p>>]>>, <<[id |-> 1, name |-> <<CH.q>>]>>,
     <<[id |-> 1, name |-> <<CH.p>>], [id |-> 2, name |-> <<CH.q>>]>>}

\* the activities table before the run: empty, or the activity of issue 1
ActivityTables(cs) ==
    {<<>>} \cup {<<[name |-> ActivityName(1, <<CH.a>>),
                   search_name |-> SearchName(1, <<CH.a>>),
                   category_id |-> c]>> : c \in 0..Len(cs)}

InitHamsterIssues ==
    /\ variant = "hamster"
    /\ categories \in CategoryTables
    /\ activities \in ActivityTables(categories)
    /\ issues \in {is \in SeqsUpTo(HamsterIssues, MaxIssues) : DistinctIds(is)}
    /\ added = <<>>
    /\ tasks = <<>> /\ tasks0 = <<>>
    /\ pc = "ready"
    /\ period = "none" /\ owners = <<>> /\ entries = <<>> /\ spent = <<>>
    /\ IdleClock /\ IdleRemote

HamsterSyncRedmineIssues ==
    /\ pc = "ready"
    /\ LET st == ImportIssues([categories |-> categories, activities |-> activities,
                               added |-> <<>>], issues)
       IN  /\ categories' = st.categories
           /\ activities' = st.activities
           /\ added' = st.added
    /\ pc' = "imported"
    /\ UNCHANGED <<today, PERIODS, variant, period, owners, entries, spent, remote,
                   remote0, calls, issues, tasks, tasks0, args>>

SpecHamsterIssues == InitHamsterIssues /\ [][HamsterSyncRedmineIssues]_vars

----------------------------------------------------------------------------
(* What a finished call of _push_time_entry did *)

Ops(log, op) == {k \in 1..Len(log) : log[k].op = op}

\* the matches the filter of the call returned
Matched == Filter(remote0, args.date, args.issue_id)

\* C6: on every day of every month of every year the import raises nothing
\* and PERIODS['month'] is [first day of the month, last day of the month],
\* the end being the first day of the next month minus one day.
C6_MonthPeriodTotal ==
    pc # "import" =>
        /\ ~HasRaised(PERIODS)
        /\ PERIODS.month[1] = <<today[1], today[2], 1>>
        /\ PERIODS.month[2] = <<today[1], today[2], DaysInMonth(today[1], today[2])>>
        /\ NextDay(PERIODS.month[2]) =
               IF today[2] = 12 THEN <<today[1] + 1, 1, 1>> ELSE <<today[1], today[2] + 1, 1>>

\* C1: when the filter returns two or more entries, neither create nor
\* update is issued and the remote entries of the triple are unchanged.
C1_AmbiguousNoWrite ==
    (pc = "pushed" /\ Cardinality(Matched) >= 2) =>
        /\ Ops(calls[1], "create") = {}
        /\ Ops(calls[1], "update") = {}
        /\ Filter(remote, args.date, args.issue_id) = Matched

\* C2: zero matches: exactly one create and no update; one match with
\* equal hours: neither; one match with other hours: exactly one update,
\* carrying the target hours and the id of the match, and no create.
C2_UpsertDeterminism ==
    pc = "pushed" =>
        LET log == calls[1]
            creates == Ops(log, "create")
            updates == Ops(log, "update")
        IN  /\ Cardinality(Matched) = 0 =>
                  /\ Cardinality(creates) = 1 /\ updates = {}
                  /\ \A k \in creates :
                        /\ log[k].hours = args.spent_time
                        /\ log[k].spent_on = args.date
                        /\ log[k].issue_id = args.issue_id
            /\ \A e \in Matched :
                  (Matched = {e} /\ e.hours = args.spent_time) =>
                      (creates = {} /\ updates = {} /\ remote = remote0)
            /\ \A e \in Matched :
                  (Matched = {e} /\ e.hours # args.spent_time) =>
                      /\ creates = {} /\ Cardinality(updates) = 1
                      /\ \A k \in updates :
                            log[k].hours = args.spent_time /\ log[k].id = e.id

C2_Witness ==
    /\ pc = "pushed"
    /\ \E e \in Matched : Matched = {e} /\ e.hours # args.spent_time
    /\ Ops(calls[1], "update") # {}

----------------------------------------------------------------------------
(* What sync_timeentries did *)

Writes(log) == Ops(log, "create") \cup Ops(log, "update")

AtMostOnePerTriple(rem) ==
    \A r1, r2 \in rem :
        (r1.spent_on = r2.spent_on /\ r1.issue_id = r2.issue_id) => r1 = r2

\* the range of the relationship the run reads
UsedRange == PERIODS[RelationshipPeriod(variant, period)]

\* what get_spent_time_per_day returns for row i of owners
SpentOf(i) == GetSpentTimePerDay(variant, entries, owners[i].key, UsedRange)

\* the days of the dict t whose rounded total is 0.0 / is not
DaysWhere(t, zero) ==
    IF HasRaised(t) THEN {}
    ELSE {t.rounded[n][1] : n \in {m \in 1..Len(t.rounded) :
                                       (t.rounded[m][2] = 0) = zero}}

ZeroDays(i) == DaysWhere(SpentOf(i), TRUE)

PushedDays(i) ==
    IF HasIssue(variant, owners[i]) THEN DaysWhere(SpentOf(i), FALSE) ELSE {}

\* C3: in every run of sync_timeentries, no remote call (filter, create or
\* update) is made for an activity / task and a day whose rounded total is 0.0.
C3_ZeroDaySuppressed ==
    \A i \in 1..Len(owners) :
        LET zero == ZeroDays(i)
        IN  \A k \in 1..Len(calls) : \A c \in 1..Len(calls[k]) :
                ~(calls[k][c].owner = i /\ calls[k][c].spent_on \in zero)

C3_Witness ==
    /\ pc = "done"
    /\ \E i \in 1..Len(owners) :
          /\ ZeroDays(i) # {}
          /\ \E c \in 1..Len(calls[1]) : calls[1][c].owner = i

\* no two rows of the local store push for the same issue and day
NoSharedTriple ==
    \A i, j \in 1..Len(owners) :
        (i # j /\ IssueOf(variant, owners[i]) = IssueOf(variant, owners[j]))
            => PushedDays(i) \cap PushedDays(j) = {}

AllClosed == \A m \in 1..Len(entries) : entries[m].end # None

\* C9 as claimed: from a remote state with at most one entry per triple and
\* any local store, the second of two runs in a row issues no create and no
\* update, and the remote still holds at most one entry per triple. Stated
\* for the local stores whose entries are all closed: the -1 of an open fact
\* (C10) plays no part in its failure.
C9_SecondRunSilent ==
    (pc = "done" /\ AtMostOnePerTriple(remote0) /\ AllClosed) =>
        (Writes(calls[2]) = {} /\ AtMostOnePerTriple(remote))

\* Where C9 fails: only where two activities / tasks of the local store push
\* a non-zero total for the same issue id and the same day; each run then
\* overwrites the one with the other. Without such a pair the second run is
\* silent.
C9_SecondRunSilentUnshared ==
    (pc = "done" /\ AtMostOnePerTriple(remote0) /\ NoSharedTriple) =>
        (Writes(calls[2]) = {} /\ AtMostOnePerTriple(remote))

C9_Witness ==
    /\ pc = "done" /\ AtMostOnePerTriple(remote0) /\ NoSharedTriple
    /\ Ops(calls[1], "create") # {} /\ Ops(calls[1], "update") # {}
    /\ Len(calls[2]) >= 2

\* the sum of end - start, in seconds, over the closed rows of es
RECURSIVE ClosedSeconds(_)
ClosedSeconds(es) ==
    IF es = <<>> THEN 0
    ELSE (IF Head(es).end = None THEN 0
          ELSE Minus(ParseStamp(Head(es).end), ParseStamp(Head(es).start)))
         + ClosedSeconds(Tail(es))

\* the rows of es that start on the date
OnDate(es, date) == SelectSeq(es, LAMBDA e : ParseStamp(e.start).date = date)

\* C10: hamster: every create or update of sync_timeentries carries hours
\* greater than zero and not lower than the half-hour-rounded sum of the
\* closed facts of that activity and day.
C10_OpenFactsNeverLower ==
    variant = "hamster" =>
        \A k \in 1..Len(calls) : \A c \in Writes(calls[k]) :
            /\ calls[k][c].hours > 0
            /\ calls[k][c].hours >=
                   RoundHalfHours(ClosedSeconds(OnDate(
                       PeriodEntries(entries, owners[calls[k][c].owner].key,
                                     UsedRange),
                       calls[k][c].spent_on)))

----------------------------------------------------------------------------
(* What get_spent_time_per_day did *)

Selected(e) == \E m \in 1..Len(spent.selected) : spent.selected[m] = e

\* C4: every closed entry selected for the period adds end - start (in
\* hours) to the bucket of its start date, whatever its length: the bucket
\* of a day of closed entries is the sum of their end - start.
C4_ClosedDuration ==
    pc = "aggregated" =>
        \A n \in 1..Len(spent.raw) :
            LET es == OnDate(spent.selected, spent.raw[n][1])
            IN  (\A m \in 1..Len(es) : es[m].end # None)
                    => spent.raw[n][2] = ClosedSeconds(es)

\* C5: the period filter get_spent_time_per_day uses is inclusive at both
\* ends: a start at period_end 00:00:00 is selected, a start at period_end
\* 00:00:01 is not, a start at period_start 00:00:00 is selected.
C5_PeriodInclusive ==
    pc = "aggregated" =>
        \A m \in 1..Len(entries) :
            LET e == entries[m]
                range == UsedRange
            IN  /\ e.start = StampText(variant, <<range[2], 0>>) => Selected(e)
                /\ e.start = StampText(variant, <<range[2], 1>>) => ~Selected(e)
                /\ e.start = StampText(variant, <<range[1], 0>>) => Selected(e)

----------------------------------------------------------------------------
(* What sync_redmine_issues did *)

\* C7: charm: when sync_redmine_issues is through, every Task has parent 0
\* or a parent that is the task_id of a Task; every Task the run created
\* was created with the parent id of its issue, 0 when the issue has none;
\* a Task whose parent was the task_id of a Task before the run keeps it.
C7_ParentsConsistent ==
    pc = "imported" =>
        /\ \A i \in 1..Len(tasks) :
              tasks[i].parent = 0 \/ TaskExists(tasks, tasks[i].parent)
        /\ Len(tasks) = Len(tasks0) + Len(added)
        /\ \A i \in 1..Len(issues) :
              ~TaskExists(tasks0, issues[i].id) =>
                  \E k \in 1..Len(added) :
                      /\ added[k].task_id = issues[i].id
                      /\ tasks[Len(tasks0) + k].task_id = issues[i].id
        /\ \A k \in 1..Len(added) :
              \E i \in 1..Len(issues) :
                  /\ issues[i].id = added[k].task_id
                  /\ ~TaskExists(tasks0, issues[i].id)
                  /\ added[k].parent = IF "parent" \in DOMAIN issues[i]
                                       THEN issues[i].parent.id ELSE 0
        /\ \A k \in 1..Len(added) :
              tasks[Len(tasks0) + k].parent \in {added[k].parent, 0}
        /\ \A i \in 1..Len(tasks0) :
              /\ tasks[i].task_id = tasks0[i].task_id
              /\ tasks[i].parent \in {tasks0[i].parent, 0}
              /\ (tasks0[i].parent # 0 /\ TaskExists(tasks0, tasks0[i].parent))
                     => tasks[i].parent = tasks0[i].parent

\* a run that created a task below a parent and reset the dangling parent
\* of an old task
C7_Witness ==
    /\ pc = "imported"
    /\ \E k \in 1..Len(added) : added[k].parent # 0
    /\ \E i \in 1..Len(tasks0) : tasks0[i].parent # 0 /\ tasks[i].parent = 0

\* C8: hamster: when sync_redmine_issues is through, for every assigned
\* issue a Category named after its project exists and every Activity the
\* run created for the issue is linked to that Category, whether the
\* Category existed before the run or was created by it.
C8_ActivityLinked ==
    pc = "imported" =>
        \A i \in 1..Len(issues) :
            /\ CategoryNamed(categories, issues[i].project) # 0
            /\ \A k \in 1..Len(added) :
                  added[k].name = ActivityName(issues[i].id, issues[i].subject)
                      => /\ added[k].category_id # 0
                         /\ \E c \in 1..Len(categories) :
                               /\ categories[c].id = added[k].category_id
                               /\ categories[c].name = issues[i].project

====
